---- MODULE Spec2Model ----
(***************************************************************************)
(* Mergington High School activities API (src/src/app.py,                  *)
(* src/src/database.py): the three tables, the seed step, and the          *)
(* list / signup / unregister request handlers.                            *)
(*                                                                         *)
(* Spec      requests handled one at a time, from the seeded store.        *)
(* SpecFull  the same handlers, from a store in which Math Club is full.   *)
(* SpecConc  requests interleaved statement by statement, each in its own  *)
(*           session, over a store that shows a session only committed     *)
(*           rows and its own uncommitted ones.                            *)
(***************************************************************************)
EXTENDS Integers, Sequences, FiniteSets

VARIABLES students, activities, registrations, last, prev, sess

vars == <<students, activities, registrations, last, prev, sess>>

(***************************************************************************)
(* Request inputs.  Neither handler validates the two strings, so the sets *)
(* hold one value per case the handlers tell apart: an activity that is    *)
(* seeded with the first email in it, a seeded activity without it, a name *)
(* that matches no activity; a seeded student and an unseen email.         *)
(***************************************************************************)
Names == {"Chess Club", "Math Club", "Knitting Club"}

Emails == {"michael@mergington.edu", "newkid@mergington.edu"}

----------------------------------------------------------------------------
(* Tables.  A row keeps the columns the handlers read: description,        *)
(* schedule, name, grade_level and the timestamps are written once and     *)
(* never read back by signup or unregister.                                *)

Activity(id, name, max_participants) ==
    [id |-> id, name |-> name, max_participants |-> max_participants]

Student(id, email) == [id |-> id, email |-> email]

Registration(id, student_id, activity_id) ==
    [id |-> id, student_id |-> student_id, activity_id |-> activity_id]

EmptyStore == [students |-> << >>, activities |-> << >>, registrations |-> << >>]

\* Integer primary key of the next inserted row: one more than the largest.
NextId(rows) ==
    IF rows = << >> THEN 1
    ELSE 1 + CHOOSE m \in {rows[i].id : i \in DOMAIN rows} :
                 \A j \in DOMAIN rows : rows[j].id <= m

initial_activities ==
    << [name |-> "Chess Club",        max_participants |-> 12],
       [name |-> "Programming Class", max_participants |-> 20],
       [name |-> "Gym Class",         max_participants |-> 30],
       [name |-> "Soccer Team",       max_participants |-> 22],
       [name |-> "Basketball Team",   max_participants |-> 15],
       [name |-> "Art Club",          max_participants |-> 15],
       [name |-> "Drama Club",        max_participants |-> 20],
       [name |-> "Math Club",         max_participants |-> 10],
       [name |-> "Debate Team",       max_participants |-> 12] >>

initial_students ==
    << "michael@mergington.edu", "daniel@mergington.edu",
       "emma@mergington.edu", "sophia@mergington.edu",
       "john@mergington.edu", "olivia@mergington.edu",
       "liam@mergington.edu", "noah@mergington.edu",
       "ava@mergington.edu", "mia@mergington.edu",
       "amelia@mergington.edu", "harper@mergington.edu",
       "ella@mergington.edu", "scarlett@mergington.edu",
       "james@mergington.edu", "benjamin@mergington.edu",
       "charlotte@mergington.edu", "henry@mergington.edu" >>

\* (activity name, email) in the order the seed step inserts them.
initial_registrations ==
    << <<"Chess Club", "michael@mergington.edu">>,
       <<"Chess Club", "daniel@mergington.edu">>,
       <<"Programming Class", "emma@mergington.edu">>,
       <<"Programming Class", "sophia@mergington.edu">>,
       <<"Gym Class", "john@mergington.edu">>,
       <<"Gym Class", "olivia@mergington.edu">>,
       <<"Soccer Team", "liam@mergington.edu">>,
       <<"Soccer Team", "noah@mergington.edu">>,
       <<"Basketball Team", "ava@mergington.edu">>,
       <<"Basketball Team", "mia@mergington.edu">>,
       <<"Art Club", "amelia@mergington.edu">>,
       <<"Art Club", "harper@mergington.edu">>,
       <<"Drama Club", "ella@mergington.edu">>,
       <<"Drama Club", "scarlett@mergington.edu">>,
       <<"Math Club", "james@mergington.edu">>,
       <<"Math Club", "benjamin@mergington.edu">>,
       <<"Debate Team", "charlotte@mergington.edu">>,
       <<"Debate Team", "henry@mergington.edu">> >>

----------------------------------------------------------------------------
(* Queries: db.query(X).filter(...) as the matching rows in table order;   *)
(* .first() is the head of a non-empty result.                             *)

query_student(st, email) ==
    LET Test(r) == r.email = email IN SelectSeq(st.students, Test)

query_activity(st, activity_name) ==
    LET Test(r) == r.name = activity_name IN SelectSeq(st.activities, Test)

query_registration(st, student_id, activity_id) ==
    LET Test(r) == r.student_id = student_id /\ r.activity_id = activity_id
    IN  SelectSeq(st.registrations, Test)

\* activity.registrations: the rows whose foreign key is the activity.
activity_registrations(st, activity) ==
    LET Test(r) == r.activity_id = activity.id
    IN  SelectSeq(st.registrations, Test)

\* reg.student: the row the registration's student_id points at.
registration_student(st, reg) ==
    LET Test(r) == r.id = reg.student_id IN Head(SelectSeq(st.students, Test))

\* The seed step: nothing when an activity exists, else the three tables,
\* ids given in insertion order, all committed together.
init_db(st) ==
    IF Len(st.activities) > 0 THEN st
    ELSE LET acts == [i \in DOMAIN initial_activities |->
                         Activity(i, initial_activities[i].name,
                                  initial_activities[i].max_participants)]
             studs == [i \in DOMAIN initial_students |->
                          Student(i, initial_students[i])]
             base == [students |-> studs, activities |-> acts,
                      registrations |-> << >>]
             regs == [i \in DOMAIN initial_registrations |->
                         Registration(i,
                             Head(query_student(base, initial_registrations[i][2])).id,
                             Head(query_activity(base, initial_registrations[i][1])).id)]
         IN  [base EXCEPT !.registrations = regs]

----------------------------------------------------------------------------
(* A session: the committed store it was opened on and its working view    *)
(* (the committed rows plus its own flushed, uncommitted ones).            *)

SessionLocal(st) == [committed |-> st, working |-> st]

\* A mutant of db.commit(): the call is left out.
db_commit_forgotten(db) == db

\* db.commit()
db_commit(db) == [db EXCEPT !.committed = db.working]

\* A mutant of get_db: closing the session keeps what it flushed.
get_db_keeps_flushed(db) == db.working

\* get_db's finally: db.close() drops whatever was not committed.
get_db(db) == db.committed

\* db.add(Student(email=email)); db.flush()
add_student(db, email) ==
    [db EXCEPT !.working.students =
        Append(@, Student(NextId(db.working.students), email))]

\* db.add(Registration(...)), sent to the store by the commit that follows.
add_registration(db, student_id, activity_id) ==
    [db EXCEPT !.working.registrations =
        Append(@, Registration(NextId(db.working.registrations),
                               student_id, activity_id))]

\* db.delete(registration)
delete_registration(db, registration) ==
    LET Keep(r) == r.id # registration.id
    IN  [db EXCEPT !.working.registrations = SelectSeq(@, Keep)]

Response(status, detail, db) == [status |-> status, detail |-> detail, db |-> db]

----------------------------------------------------------------------------
(* Handlers, as functions from the session and the request to the response *)
(* and the session as the handler leaves it.                               *)

\* GET /activities: name -> max_participants and the participants' emails.
get_activities(st) ==
    [name \in {st.activities[i].name : i \in DOMAIN st.activities} |->
        LET activity == Head(query_activity(st, name))
            regs == activity_registrations(st, activity)
        IN  [max_participants |-> activity.max_participants,
             participants |-> [i \in DOMAIN regs |->
                                  registration_student(st, regs[i]).email]]]

\* A mutant of signup: the existence check is skipped.
signup_without_check(db, activity_name, email) ==
    LET db1 == IF query_student(db.working, email) = << >>
               THEN add_student(db, email) ELSE db
        student == Head(query_student(db1.working, email))
        found == query_activity(db1.working, activity_name)
    IN  IF found = << >> THEN Response(404, "Activity not found", db1)
        ELSE Response(200, "Signed up",
                 db_commit(add_registration(db1, student.id, Head(found).id)))

\* A mutant of signup: a full activity turns the request down.
signup_with_capacity(db, activity_name, email) ==
    LET db1 == IF query_student(db.working, email) = << >>
               THEN add_student(db, email) ELSE db
        student == Head(query_student(db1.working, email))
        found == query_activity(db1.working, activity_name)
    IN  IF found = << >> THEN Response(404, "Activity not found", db1)
        ELSE IF query_registration(db1.working, student.id, Head(found).id) # << >>
        THEN Response(400, "Student is already signed up", db1)
        ELSE IF Len(activity_registrations(db1.working, Head(found)))
                    >= Head(found).max_participants
        THEN Response(400, "Activity is full", db1)
        ELSE Response(200, "Signed up",
                 db_commit(add_registration(db1, student.id, Head(found).id)))

\* A mutant of signup: the activity lookup's result is used unchecked, and
\* reading the id of no row fails the request.
signup_activity_unchecked(db, activity_name, email) ==
    LET db1 == IF query_student(db.working, email) = << >>
               THEN add_student(db, email) ELSE db
        student == Head(query_student(db1.working, email))
        found == query_activity(db1.working, activity_name)
    IN  IF found = << >> THEN Response(500, "Internal Server Error", db1)
        ELSE IF query_registration(db1.working, student.id, Head(found).id) # << >>
        THEN Response(400, "Student is already signed up", db1)
        ELSE Response(200, "Signed up",
                 db_commit(add_registration(db1, student.id, Head(found).id)))

\* POST /activities/{activity_name}/signup
signup_for_activity(db, activity_name, email) ==
    LET db1 == IF query_student(db.working, email) = << >>
               THEN add_student(db, email) ELSE db
        student == Head(query_student(db1.working, email))
        found == query_activity(db1.working, activity_name)
    IN  IF found = << >> THEN Response(404, "Activity not found", db1)
        ELSE IF query_registration(db1.working, student.id, Head(found).id) # << >>
        THEN Response(400, "Student is already signed up", db1)
        ELSE Response(200, "Signed up",
                 db_commit(add_registration(db1, student.id, Head(found).id)))

\* A mutant of unregister: the activity is looked up before the student.
unregister_activity_first(db, activity_name, email) ==
    LET students_found == query_student(db.working, email)
        found == query_activity(db.working, activity_name)
    IN  IF found = << >> THEN Response(404, "Activity not found", db)
        ELSE IF students_found = << >> THEN Response(400, "Student not found", db)
        ELSE LET regs == query_registration(db.working, Head(students_found).id,
                                            Head(found).id)
             IN  IF regs = << >>
                 THEN Response(400, "Student is not signed up for this activity", db)
                 ELSE Response(200, "Unregistered",
                          db_commit(delete_registration(db, Head(regs))))

\* A mutant of unregister: a missing registration is reported as success.
unregister_lenient(db, activity_name, email) ==
    LET students_found == query_student(db.working, email)
        found == query_activity(db.working, activity_name)
    IN  IF students_found = << >> THEN Response(200, "Unregistered", db)
        ELSE IF found = << >> THEN Response(404, "Activity not found", db)
        ELSE LET regs == query_registration(db.working, Head(students_found).id,
                                            Head(found).id)
             IN  IF regs = << >>
                 THEN Response(200, "Unregistered", db)
                 ELSE Response(200, "Unregistered",
                          db_commit(delete_registration(db, Head(regs))))

\* A mutant of unregister: every registration of the student is deleted.
unregister_all(db, activity_name, email) ==
    LET students_found == query_student(db.working, email)
        found == query_activity(db.working, activity_name)
    IN  IF students_found = << >> THEN Response(400, "Student not found", db)
        ELSE IF found = << >> THEN Response(404, "Activity not found", db)
        ELSE LET regs == query_registration(db.working, Head(students_found).id,
                                            Head(found).id)
                 Keep(r) == r.student_id # Head(students_found).id
             IN  IF regs = << >>
                 THEN Response(400, "Student is not signed up for this activity", db)
                 ELSE Response(200, "Unregistered",
                          db_commit([db EXCEPT !.working.registrations =
                                        SelectSeq(@, Keep)]))

\* DELETE /activities/{activity_name}/unregister
unregister_from_activity(db, activity_name, email) ==
    LET students_found == query_student(db.working, email)
        found == query_activity(db.working, activity_name)
    IN  IF students_found = << >> THEN Response(400, "Student not found", db)
        ELSE IF found = << >> THEN Response(404, "Activity not found", db)
        ELSE LET regs == query_registration(db.working, Head(students_found).id,
                                            Head(found).id)
             IN  IF regs = << >>
                 THEN Response(400, "Student is not signed up for this activity", db)
                 ELSE Response(200, "Unregistered",
                          db_commit(delete_registration(db, Head(regs))))

----------------------------------------------------------------------------
(* Requests handled one at a time.                                         *)

Store == [students |-> students, activities |-> activities,
          registrations |-> registrations]

NoRequest == [op |-> "none", activity_name |-> "", email |-> "", status |-> 0,
              detail |-> "", before |-> EmptyStore]

Idle == [pc |-> "idle", op |-> "none", activity_name |-> "", email |-> "",
         student_id |-> 0, activity_id |-> 0, registration_id |-> 0,
         flushed |-> << >>, status |-> 0]

Sessions == {1, 2}

Init ==
    LET st == init_db(EmptyStore)
    IN  /\ students = st.students
        /\ activities = st.activities
        /\ registrations = st.registrations
        /\ last = NoRequest
        /\ prev = NoRequest
        /\ sess = [s \in Sessions |-> Idle]

\* Registration ids grow without bound as rows are deleted below the newest
\* one and new rows take the next id; the model follows the store while at
\* most MaxIdGaps ids below the largest are unused.
MaxIdGaps == 1

IdGaps(rows) == NextId(rows) - 1 - Len(rows)

\* One request served to completion: open the session, run the handler,
\* close the session, answer.
Served(op, activity_name, email, r) ==
    LET st == get_db(r.db)
    IN  /\ IdGaps(st.registrations) <= MaxIdGaps
        /\ students' = st.students
        /\ activities' = st.activities
        /\ registrations' = st.registrations
        /\ last' = [op |-> op, activity_name |-> activity_name, email |-> email,
                    status |-> r.status, detail |-> r.detail, before |-> Store]
        /\ prev' = last
        /\ UNCHANGED sess

Signup(activity_name, email) ==
    Served("signup", activity_name, email,
           signup_for_activity(SessionLocal(Store), activity_name, email))

Unregister(activity_name, email) ==
    Served("unregister", activity_name, email,
           unregister_from_activity(SessionLocal(Store), activity_name, email))

ListActivities ==
    Served("list", "", "", Response(200, "", SessionLocal(Store)))

Next ==
    \/ \E activity_name \in Names, email \in Emails : Signup(activity_name, email)
    \/ \E activity_name \in Names, email \in Emails : Unregister(activity_name, email)
    \/ ListActivities

Spec == Init /\ [][Next]_vars

----------------------------------------------------------------------------
(* The same handlers from a store in which one activity is full: the       *)
(* seeded store after the seeded students, in roster order, have signed up *)
(* for it one request at a time until its participants number              *)
(* max_participants.                                                       *)

FullActivity == "Math Club"

RECURSIVE Fill(_, _)
Fill(st, i) ==
    LET activity == Head(query_activity(st, FullActivity))
    IN  IF \/ i > Len(initial_students)
           \/ Len(activity_registrations(st, activity)) >= activity.max_participants
        THEN st
        ELSE Fill(get_db(signup_for_activity(SessionLocal(st), FullActivity,
                                             initial_students[i]).db), i + 1)

InitFull ==
    LET st == Fill(init_db(EmptyStore), 1)
    IN  /\ students = st.students
        /\ activities = st.activities
        /\ registrations = st.registrations
        /\ last = NoRequest
        /\ prev = NoRequest
        /\ sess = [s \in Sessions |-> Idle]

SpecFull == InitFull /\ [][Next]_vars

----------------------------------------------------------------------------
(* Requests interleaved.  Each request runs in a session of its own; a     *)
(* step is one statement the handler sends to the store.  A query sees the *)
(* rows committed so far and the session's own flushed rows                *)
(* (read-committed).  Student.email is unique; no constraint covers        *)
(* (student_id, activity_id).  The store holds one writer's uncommitted    *)
(* rows at a time: a second writer waits for the first to commit or close. *)

ConcNames == {"Math Club", "Knitting Club"}

\* Concurrent signups for one pair add rows without bound; the model
\* follows the registrations table up to MaxRows rows.
MaxRows == 20

\* What session s reads: committed rows and its own flushed student.
View(s) == [Store EXCEPT !.students = @ \o sess[s].flushed]

NoOtherWriter(s) == \A t \in Sessions \ {s} : sess[t].flushed = << >>

Step(s, fields) == sess' = [sess EXCEPT ![s] = fields]

Begin(s, op, activity_name, email) ==
    /\ sess[s].pc = "idle"
    /\ Step(s, [Idle EXCEPT !.pc = "query_student", !.op = op,
                            !.activity_name = activity_name, !.email = email])
    /\ UNCHANGED <<students, activities, registrations, last, prev>>

\* student = db.query(Student).filter(Student.email == email).first()
QueryStudent(s) ==
    /\ sess[s].pc = "query_student"
    /\ LET found == query_student(View(s), sess[s].email)
       IN  IF found # << >>
           THEN Step(s, [sess[s] EXCEPT !.student_id = Head(found).id,
                                        !.pc = "query_activity"])
           ELSE IF sess[s].op = "signup"
           THEN Step(s, [sess[s] EXCEPT !.pc = "flush_student"])
           ELSE Step(s, [sess[s] EXCEPT !.status = 400, !.pc = "close"])
    /\ UNCHANGED <<students, activities, registrations, last, prev>>

\* db.add(student); db.flush(): the INSERT, inside the session's
\* transaction.  An email committed since the query breaks the unique index.
FlushStudent(s) ==
    /\ sess[s].pc = "flush_student"
    /\ NoOtherWriter(s)
    /\ IF query_student(Store, sess[s].email) # << >>
       THEN Step(s, [sess[s] EXCEPT !.status = 500, !.pc = "close"])
       ELSE Step(s, [sess[s] EXCEPT
                        !.flushed = << Student(NextId(students), sess[s].email) >>,
                        !.student_id = NextId(students),
                        !.pc = "query_activity"])
    /\ UNCHANGED <<students, activities, registrations, last, prev>>

\* activity = db.query(Activity).filter(Activity.name == activity_name).first()
QueryActivity(s) ==
    /\ sess[s].pc = "query_activity"
    /\ LET found == query_activity(View(s), sess[s].activity_name)
       IN  IF found = << >>
           THEN Step(s, [sess[s] EXCEPT !.status = 404, !.pc = "close"])
           ELSE Step(s, [sess[s] EXCEPT !.activity_id = Head(found).id,
                                        !.pc = "query_registration"])
    /\ UNCHANGED <<students, activities, registrations, last, prev>>

\* db.query(Registration).filter(student_id, activity_id).first()
QueryRegistration(s) ==
    /\ sess[s].pc = "query_registration"
    /\ LET found == query_registration(View(s), sess[s].student_id,
                                       sess[s].activity_id)
       IN  IF sess[s].op = "signup"
           THEN IF found # << >>
                THEN Step(s, [sess[s] EXCEPT !.status = 400, !.pc = "close"])
                ELSE Step(s, [sess[s] EXCEPT !.pc = "commit"])
           ELSE IF found = << >>
                THEN Step(s, [sess[s] EXCEPT !.status = 400, !.pc = "close"])
                ELSE Step(s, [sess[s] EXCEPT !.registration_id = Head(found).id,
                                             !.pc = "commit"])
    /\ UNCHANGED <<activities, students, registrations, last, prev>>

\* A mutant of the signup commit: a unique constraint on
\* (student_id, activity_id) turns the second insert down.
CommitSignupUnique(s) ==
    /\ sess[s].pc = "commit"
    /\ sess[s].op = "signup"
    /\ NoOtherWriter(s)
    /\ Len(registrations) < MaxRows
    /\ IF query_registration(Store, sess[s].student_id, sess[s].activity_id) # << >>
       THEN /\ Step(s, [sess[s] EXCEPT !.status = 500, !.pc = "close"])
            /\ UNCHANGED <<students, registrations>>
       ELSE /\ students' = students \o sess[s].flushed
            /\ registrations' =
                  Append(registrations,
                         Registration(NextId(registrations), sess[s].student_id,
                                      sess[s].activity_id))
            /\ Step(s, [sess[s] EXCEPT !.flushed = << >>, !.status = 200,
                                        !.pc = "close"])
    /\ UNCHANGED <<activities, last, prev>>

\* db.add(registration); db.commit(): the INSERT and the COMMIT, which
\* also commits a student the session flushed.
CommitSignup(s) ==
    /\ sess[s].pc = "commit"
    /\ sess[s].op = "signup"
    /\ NoOtherWriter(s)
    /\ Len(registrations) < MaxRows
    /\ students' = students \o sess[s].flushed
    /\ registrations' =
          Append(registrations,
                 Registration(NextId(registrations), sess[s].student_id,
                              sess[s].activity_id))
    /\ Step(s, [sess[s] EXCEPT !.flushed = << >>, !.status = 200, !.pc = "close"])
    /\ UNCHANGED <<activities, last, prev>>

\* db.delete(registration); db.commit(): the DELETE by primary key and the
\* COMMIT.  A row a concurrent request deleted first matches nothing, which
\* the session raises as an error.
CommitUnregister(s) ==
    /\ sess[s].pc = "commit"
    /\ sess[s].op = "unregister"
    /\ NoOtherWriter(s)
    /\ LET Keep(r) == r.id # sess[s].registration_id
           kept == SelectSeq(registrations, Keep)
       IN  IF kept = registrations
           THEN /\ Step(s, [sess[s] EXCEPT !.status = 500, !.pc = "close"])
                /\ UNCHANGED registrations
           ELSE /\ IdGaps(kept) <= MaxIdGaps
                /\ registrations' = kept
                /\ Step(s, [sess[s] EXCEPT !.status = 200, !.pc = "close"])
    /\ UNCHANGED <<students, activities, last, prev>>

\* get_db's finally: db.close() rolls back what the session did not
\* commit; the response goes out.
Close(s) ==
    /\ sess[s].pc = "close"
    /\ Step(s, Idle)
    /\ UNCHANGED <<students, activities, registrations, last, prev>>

NextConc ==
    \E s \in Sessions :
        \/ \E activity_name \in ConcNames, email \in Emails :
               Begin(s, "signup", activity_name, email)
        \/ \E activity_name \in ConcNames, email \in Emails :
               Begin(s, "unregister", activity_name, email)
        \/ QueryStudent(s)
        \/ FlushStudent(s)
        \/ QueryActivity(s)
        \/ QueryRegistration(s)
        \/ CommitSignup(s)
        \/ CommitUnregister(s)
        \/ Close(s)

SpecConc == Init /\ [][NextConc]_vars

----------------------------------------------------------------------------
(* What the claims speak of.                                               *)

ActivityExists(st, activity_name) == query_activity(st, activity_name) # << >>

StudentExists(st, email) == query_student(st, email) # << >>

\* A Registration row links a Student with this email to an Activity with
\* this name.
HasRegistration(st, activity_name, email) ==
    \E i \in DOMAIN st.registrations, j \in DOMAIN st.students,
       k \in DOMAIN st.activities :
        /\ st.students[j].email = email
        /\ st.activities[k].name = activity_name
        /\ st.registrations[i].student_id = st.students[j].id
        /\ st.registrations[i].activity_id = st.activities[k].id

\* The participant list of an activity as list-activities returns it.
Participants(st, activity_name) == get_activities(st)[activity_name].participants

Count(seq, x) == Cardinality({i \in DOMAIN seq : seq[i] = x})

NewEmail == "newkid@mergington.edu"

SeededEmail == "michael@mergington.edu"

UnknownName == "Knitting Club"

(* C1: after a successful signup of email E for existing activity A, where *)
(* E had no registration for A, E appears exactly once in A's participant  *)
(* list as list-activities returns it, whether or not a Student with email *)
(* E existed before.                                                       *)
C1_SignupListsOnce ==
    (/\ last.op = "signup"
     /\ ActivityExists(last.before, last.activity_name)
     /\ ~HasRegistration(last.before, last.activity_name, last.email)
     /\ last.status = 200)
    => Count(Participants(Store, last.activity_name), last.email) = 1

C1_Witness ==
    /\ last.op = "signup"
    /\ last.status = 200
    /\ ~StudentExists(last.before, last.email)
    /\ ~HasRegistration(last.before, last.activity_name, last.email)
    /\ Count(Participants(Store, last.activity_name), last.email) = 1

(* C2: from the seeded store, with each signup and unregister handled to   *)
(* completion before the next begins, no two Registration rows share the   *)
(* same (student, activity) pair.                                          *)
C2_AtMostOneRegistration ==
    \A i, j \in DOMAIN registrations :
        (/\ registrations[i].student_id = registrations[j].student_id
         /\ registrations[i].activity_id = registrations[j].activity_id)
        => i = j

C2_Witness ==
    /\ prev.op = "unregister" /\ prev.status = 200
    /\ last.op = "signup" /\ last.status = 200
    /\ last.activity_name = prev.activity_name
    /\ last.email = prev.email
    /\ HasRegistration(Store, last.activity_name, last.email)

(* C3: signup of an email already registered for an existing activity      *)
(* fails with 400 "already signed up", and the activity's participant list *)
(* still holds exactly one entry for the email.                            *)
C3_DuplicateSignupConflict ==
    (/\ last.op = "signup"
     /\ ActivityExists(last.before, last.activity_name)
     /\ HasRegistration(last.before, last.activity_name, last.email))
    => /\ last.status = 400
       /\ last.detail = "Student is already signed up"
       /\ Count(Participants(Store, last.activity_name), last.email) = 1

C3_Witness ==
    /\ last.op = "signup"
    /\ HasRegistration(last.before, last.activity_name, last.email)
    /\ last.status = 400
    /\ Count(Participants(Store, last.activity_name), last.email) = 1

(* C4: unregister of an email with no registration for an existing         *)
(* activity (unknown student, or known student registered elsewhere or     *)
(* nowhere) fails with 400 and leaves Students, Activities and             *)
(* Registrations unchanged.                                                *)
C4_UnregisterNotRegistered ==
    (/\ last.op = "unregister"
     /\ ActivityExists(last.before, last.activity_name)
     /\ ~HasRegistration(last.before, last.activity_name, last.email))
    => /\ last.status = 400
       /\ Store = last.before

C4_Witness ==
    /\ last.op = "unregister"
    /\ ActivityExists(last.before, last.activity_name)
    /\ StudentExists(last.before, last.email)
    /\ ~HasRegistration(last.before, last.activity_name, last.email)
    /\ \E other \in Names : HasRegistration(last.before, other, last.email)
    /\ last.status = 400

(* C5: signup for a name that matches no Activity fails with 404 for every *)
(* email, seen or unseen, and creates no Registration.                     *)
C5_SignupUnknownActivity ==
    (/\ last.op = "signup"
     /\ ~ActivityExists(last.before, last.activity_name))
    => /\ last.status = 404
       /\ registrations = last.before.registrations

C5_Witness ==
    /\ last.op = "signup"
    /\ last.activity_name = UnknownName
    /\ last.email = SeededEmail
    /\ last.status = 404

(* C6: a successful signup(A, E), E not registered for A before, followed  *)
(* at once by unregister(A, E): the unregister succeeds and every          *)
(* activity's participant list equals what it was before the signup.       *)
C6_SignupUnregisterRoundTrip ==
    (/\ prev.op = "signup" /\ prev.status = 200
     /\ last.op = "unregister"
     /\ last.activity_name = prev.activity_name
     /\ last.email = prev.email)
    => /\ last.status = 200
       /\ get_activities(Store) = get_activities(prev.before)

C6_Witness ==
    /\ prev.op = "signup" /\ prev.status = 200
    /\ last.op = "unregister" /\ last.status = 200
    /\ last.activity_name = prev.activity_name
    /\ last.email = prev.email
    /\ \E other \in Names \ {last.activity_name} :
           HasRegistration(Store, other, last.email)

(* C7: unregister answers 400 when the email matches no Student (whatever  *)
(* the activity name), 404 when the Student exists and the name matches no *)
(* Activity, 400 when both exist and no Registration links them, and 200   *)
(* only when the Registration exists.                                      *)
C7_UnregisterCheckOrder ==
    last.op = "unregister"
    => last.status =
         IF ~StudentExists(last.before, last.email) THEN 400
         ELSE IF ~ActivityExists(last.before, last.activity_name) THEN 404
         ELSE IF ~HasRegistration(last.before, last.activity_name, last.email)
              THEN 400
         ELSE 200

C7_Witness ==
    /\ last.op = "unregister"
    /\ ~StudentExists(last.before, last.email)
    /\ ~ActivityExists(last.before, last.activity_name)
    /\ last.status = 400
    /\ last.detail = "Student not found"

(* C9: signup never consults max_participants: for an existing activity    *)
(* whose registrations already number max_participants or more, signup of  *)
(* an email not registered for it succeeds and adds a Registration.        *)
C9_SignupIgnoresCapacity ==
    (/\ last.op = "signup"
     /\ ActivityExists(last.before, last.activity_name)
     /\ ~HasRegistration(last.before, last.activity_name, last.email)
     /\ Len(Participants(last.before, last.activity_name))
            >= get_activities(last.before)[last.activity_name].max_participants)
    => /\ last.status = 200
       /\ Len(Participants(Store, last.activity_name))
            = Len(Participants(last.before, last.activity_name)) + 1

C9_Witness ==
    /\ last.op = "signup"
    /\ last.status = 200
    /\ last.activity_name = FullActivity
    /\ Len(Participants(Store, FullActivity))
            > get_activities(Store)[FullActivity].max_participants

(* C10: a signup that fails leaves the persisted store unchanged; the      *)
(* Student row added and flushed for an unseen email before the activity   *)
(* lookup is never committed, so after the 404 no Student has that email.  *)
C10_FailedSignupNoChange ==
    (last.op = "signup" /\ last.status # 200)
    => /\ Store = last.before
       /\ (~StudentExists(last.before, last.email)
              => ~StudentExists(Store, last.email))

C10_Witness ==
    /\ last.op = "signup"
    /\ last.status = 404
    /\ last.email = NewEmail
    /\ ~StudentExists(last.before, NewEmail)
    /\ ~StudentExists(Store, NewEmail)

(* C8: two interleaved signups for the same (email, activity) pair can     *)
(* both pass the existence check before either commits and both insert: a  *)
(* signup that passed the check inserts its row at commit although a row   *)
(* for the pair was committed in between, leaving two rows for the pair.   *)
C8_CheckedSignupInsertsAgain ==
    [][\A s \in Sessions :
         (/\ sess[s].pc = "commit"
          /\ sess[s].op = "signup"
          /\ query_registration(Store, sess[s].student_id,
                                sess[s].activity_id) # << >>
          /\ sess'[s].pc = "close")
         => /\ sess'[s].status = 200
            /\ Len(query_registration(Store', sess[s].student_id,
                                      sess[s].activity_id))
                 = 1 + Len(query_registration(Store, sess[s].student_id,
                                              sess[s].activity_id))]_vars

C8_Witness ==
    \E s, t \in Sessions :
        /\ s # t
        /\ sess[s].pc = "close" /\ sess[s].op = "signup" /\ sess[s].status = 200
        /\ sess[t].pc = "close" /\ sess[t].op = "signup" /\ sess[t].status = 200
        /\ sess[s].email = sess[t].email
        /\ sess[s].activity_name = sess[t].activity_name
        /\ Len(query_registration(Store, sess[s].student_id,
                                  sess[s].activity_id)) = 2

====
